---- MODULE Spec2Model ----
(***************************************************************************)
(* Entity persistence (CrudBase / RepoBase / RepoMeta / handle_exceptions) *)
(* and the dual-token authentication lifecycle (AuthService, UserService)  *)
(* of the backend, as a state machine.                                     *)
(*                                                                         *)
(*   Spec      the token lifecycle: register, login, refresh, decode,      *)
(*             the clock                                                   *)
(*   SpecReg   concurrent register requests, one storage session each      *)
(*   SpecRepo  repository classes built by RepoMeta and calls through      *)
(*             their methods with every kind of storage failure            *)
(***************************************************************************)
EXTENDS Integers, Sequences, FiniteSets, TLC

VARIABLES
    engine,     \* storage engine behind DB_URI: "sqlite" or "postgresql"
    db,         \* committed rows, a set for each of the tables user, auth, qr_code
    nextId,     \* next fresh identifier (uuid4 never repeats)
    now,        \* wall clock, minutes
    ticks,      \* number of clock advances so far
    held,       \* token pairs handed to callers
    last,       \* the last service call: operation, arguments, outcome, trace
    reqs,       \* register requests: position, arguments, session, outcome
    classes,    \* repository classes as RepoMeta built them
    call,       \* the last call through a repository method (SpecRepo)
    rotated,    \* refresh tokens a refresh has already succeeded with (SpecLife)
    created     \* QR codes created so far: id and the user_id given (SpecQr)

vars == <<engine, db, nextId, now, ticks, held, last, reqs, classes, call, rotated,
          created>>

----------------------------------------------------------------------------
(* Bounds of the model *)

MaxTicks == 2
MaxHeld == 1
MaxReq == 2
MaxRotated == 2
MaxId == 3
MaxBatch == 2
MaxQr == 2

(* Program constants *)

ACCESS_TOKEN_EXPIRE_MINUTES == 15
REFRESH_TOKEN_EXPIRE_MINUTES == 10080
SECRET_KEY == "SECRET_KEY"

Usernames == {"alice", "bob"}
Passwords == {"s3cret!", "bad"}
Engines == {"sqlite", "postgresql"}

----------------------------------------------------------------------------
(* Failures and call outcomes *)

NoExc == [cls |-> "none", entity |-> "", msg |-> <<>>]
Exc(cls, entity, msg) == [cls |-> cls, entity |-> entity, msg |-> msg]
Return(v) == [exc |-> NoExc, val |-> v]
Raise(e) == [exc |-> e, val |-> <<>>]
Raised(res) == res.exc.cls # "none"

NoResultFound == Exc("sqlalchemy.exc.NoResultFound", "", <<>>)
IntegrityError(msg) == Exc("sqlalchemy.exc.IntegrityError", "", msg)
NotFoundError(entity) == Exc("NotFoundError", entity, <<entity, "not found">>)
AlreadyExistError(entity) == Exc("AlreadyExistError", entity, <<entity, "already exists">>)
InvalidLoginOrPasswordError == Exc("InvalidLoginOrPasswordError", "", <<>>)
NotAuthorizedError == Exc("NotAuthorizedError", "", <<>>)
RefreshTokenRequiredError == Exc("RefreshTokenRequiredError", "", <<>>)
DecodeError == Exc("jwt.DecodeError", "", <<>>)
ExpiredSignatureError == Exc("jwt.ExpiredSignatureError", "", <<>>)
AdminRightsRequiredError == Exc("AdminRightsRequiredError", "", <<>>)

(* The failure kinds that derive from ApplicationError *)
ApplicationErrors ==
    {"NotFoundError", "AlreadyExistError", "InvalidLoginOrPasswordError",
     "NotAuthorizedError", "RefreshTokenRequiredError", "AdminRightsRequiredError"}

----------------------------------------------------------------------------
(* Serializer: a domain record is its fields plus its class; the DTO is the *)
(* flat field-keyed dictionary                                              *)

serialize(obj) == [k \in DOMAIN obj \ {"__class__"} |-> obj[k]]

deserialize(model, dto) ==
    [k \in DOMAIN dto \cup {"__class__"} |-> IF k = "__class__" THEN model ELSE dto[k]]

User(id, username) == [__class__ |-> "User", id |-> id, username |-> username]

QrCode(id, user_id, name, link) ==
    [__class__ |-> "QrCode", id |-> id, user_id |-> user_id, name |-> name,
     link |-> link]

Auth(id, user_id, username, password_hash) ==
    [__class__ |-> "Auth", id |-> id, user_id |-> user_id, username |-> username,
     password_hash |-> password_hash, is_admin |-> FALSE]

----------------------------------------------------------------------------
(* Storage: tables, uniqueness constraints, the messages of the engines *)

Entities == {"Auth", "User", "QrCode"}

TableOf(entity) ==
    CASE entity = "Auth" -> "auth"
      [] entity = "User" -> "user"
      [] OTHER -> "qr_code"

UniqueColumns(table) == IF table = "qr_code" THEN {"id"} ELSE {"id", "username"}

SqliteUniqueMsg(table, col) ==
    <<"(sqlite3.IntegrityError) UNIQUE constraint failed:", table, col>>
PgUniqueMsg(table, col) ==
    <<"(sqlalchemy.dialects.postgresql.asyncpg.IntegrityError)",
      "duplicate key value violates unique constraint", table, col>>
UniqueMsg(eng, table, col) ==
    IF eng = "sqlite" THEN SqliteUniqueMsg(table, col) ELSE PgUniqueMsg(table, col)

(* A transaction: the rows a session has written and the committed rows it *)
(* has removed, neither yet committed, and the number of statements the    *)
(* session has executed                                                     *)
EmptyTx == [user |-> {}, auth |-> {}, qr_code |-> {}, deleted |-> {}, stmts |-> 0]

(* await self.session.execute(...) *)
Execute(tx) == [tx EXCEPT !.stmts = @ + 1]
Visible(tx, table) ==
    {x \in db[table] : <<table, x>> \notin tx.deleted} \cup tx[table]

ViolatedColumns(rows, table, dto) ==
    {c \in UniqueColumns(table) : \E x \in rows : x[c] = dto[c]}

----------------------------------------------------------------------------
(* CrudBase: storage operations of one session. Each returns the outcome    *)
(* and the session's transaction after the statement                        *)

CrudResult(res, tx) == [exc |-> res.exc, val |-> res.val, tx |-> tx]

(* select ... where id == id_, then .one() *)
Crud_get_by_id(tx, table, id_) ==
    LET rows == {x \in Visible(tx, table) : x.id = id_}
    IN IF rows = {} THEN CrudResult(Raise(NoResultFound), Execute(tx))
       ELSE CrudResult(Return(CHOOSE x \in rows : TRUE), Execute(tx))

(* select ... where username == username, then .one() *)
AuthCrud_get_by_username(tx, username) ==
    LET rows == {x \in Visible(tx, "auth") : x.username = username}
    IN IF rows = {} THEN CrudResult(Raise(NoResultFound), Execute(tx))
       ELSE CrudResult(Return(CHOOSE x \in rows : TRUE), Execute(tx))

(* the session's transaction after a statement that removes the rows gone  *)
(* and writes the rows new                                                  *)
Rewrite(tx, table, gone, new) ==
    [Execute(tx) EXCEPT ![table] = (@ \ gone) \cup new,
                        !.deleted = @ \cup {<<table, x>> : x \in gone \cap db[table]}]

(* variant: the new row takes the place of the rows it collides with *)
Crud_create_and_get_Replace(tx, table, dto) ==
    LET gone == {x \in Visible(tx, table) :
                    \E c \in UniqueColumns(table) : x[c] = dto[c]}
    IN CrudResult(Return(dto), Rewrite(tx, table, gone, {dto}))

(* insert ... returning: the row is written in the session's transaction,   *)
(* or the engine reports the violated uniqueness constraint                 *)
Crud_create_and_get(tx, table, dto) ==
    LET cols == ViolatedColumns(Visible(tx, table), table, dto)
    IN IF cols # {}
       THEN CrudResult(Raise(IntegrityError(
                UniqueMsg(engine, table, CHOOSE c \in cols : TRUE))), Execute(tx))
       ELSE CrudResult(Return(dto), [Execute(tx) EXCEPT ![table] = @ \cup {dto}])

Range(seq) == {seq[i] : i \in 1..Len(seq)}
Ids(rows) == {x.id : x \in rows}

(* one insert statement with several rows: the engine writes them in the    *)
(* order of values(...) and stops at the first row that violates a          *)
(* uniqueness constraint                                                    *)
RECURSIVE InsertRows(_, _, _, _)
InsertRows(rows, table, objs, i) ==
    IF i > Len(objs) THEN [ok |-> TRUE, rows |-> rows, col |-> ""]
    ELSE LET cols == ViolatedColumns(rows, table, objs[i])
         IN IF cols # {}
            THEN [ok |-> FALSE, rows |-> rows, col |-> CHOOSE c \in cols : TRUE]
            ELSE InsertRows(rows \cup {objs[i]}, table, objs, i + 1)

(* variant: the rows written before the failing one stay *)
Crud_create_many_RowByRow(tx, table, objs) ==
    IF Len(objs) = 0 THEN CrudResult(Return(<<>>), tx)
    ELSE LET ins == InsertRows(Visible(tx, table), table, objs, 1)
         IN IF ~ins.ok
            THEN CrudResult(Raise(IntegrityError(UniqueMsg(engine, table, ins.col))),
                            [Execute(tx) EXCEPT ![table] = @ \cup (ins.rows \ db[table])])
            ELSE CrudResult(Return([i \in 1..Len(objs) |-> objs[i].id]),
                            [Execute(tx) EXCEPT ![table] = @ \cup Range(objs)])

(* variant: the identifiers come back in the reverse order *)
Crud_create_many_Reversed(tx, table, objs) ==
    IF Len(objs) = 0 THEN CrudResult(Return(<<>>), tx)
    ELSE LET ins == InsertRows(Visible(tx, table), table, objs, 1)
         IN IF ~ins.ok
            THEN CrudResult(Raise(IntegrityError(UniqueMsg(engine, table, ins.col))),
                            Execute(tx))
            ELSE CrudResult(Return([i \in 1..Len(objs) |-> objs[Len(objs) + 1 - i].id]),
                            [Execute(tx) EXCEPT ![table] = @ \cup Range(objs)])

(* insert(table).values(objs).returning(id): a failed statement leaves      *)
(* nothing behind; the rows come back in the order they were written        *)
Crud_create_many(tx, table, objs) ==
    IF Len(objs) = 0 THEN CrudResult(Return(<<>>), tx)
    ELSE LET ins == InsertRows(Visible(tx, table), table, objs, 1)
         IN IF ~ins.ok
            THEN CrudResult(Raise(IntegrityError(UniqueMsg(engine, table, ins.col))),
                            Execute(tx))
            ELSE CrudResult(Return([i \in 1..Len(objs) |-> objs[i].id]),
                            [Execute(tx) EXCEPT ![table] = @ \cup Range(objs)])

(* insert(table).values(objs).returning(table) *)
Crud_create_and_get_many(tx, table, objs) ==
    IF Len(objs) = 0 THEN CrudResult(Return(<<>>), tx)
    ELSE LET ins == InsertRows(Visible(tx, table), table, objs, 1)
         IN IF ~ins.ok
            THEN CrudResult(Raise(IntegrityError(UniqueMsg(engine, table, ins.col))),
                            Execute(tx))
            ELSE CrudResult(Return(objs),
                            [Execute(tx) EXCEPT ![table] = @ \cup Range(objs)])

(* variant: a record whose id matches no row is inserted *)
Crud_update_Upsert(tx, table, values) ==
    LET rows == {x \in Visible(tx, table) : x.id = values.id}
        cols == ViolatedColumns(Visible(tx, table) \ rows, table, values)
    IN IF cols # {}
       THEN CrudResult(Raise(IntegrityError(
                UniqueMsg(engine, table, CHOOSE c \in cols : TRUE))), Execute(tx))
       ELSE CrudResult(Return(values.id), Rewrite(tx, table, rows, {values}))

(* variant: the row is found by its username and takes the record's id *)
Crud_update_ByUsername(tx, table, values) ==
    LET rows == {x \in Visible(tx, table) : x.username = values.username}
        cols == ViolatedColumns(Visible(tx, table) \ rows, table, values)
    IN IF rows = {} THEN CrudResult(Raise(NoResultFound), Execute(tx))
       ELSE IF cols # {}
       THEN CrudResult(Raise(IntegrityError(
                UniqueMsg(engine, table, CHOOSE c \in cols : TRUE))), Execute(tx))
       ELSE CrudResult(Return(values.id), Rewrite(tx, table, rows, {values}))

(* update ... where id == values["id"] ... returning id, then .one(): with  *)
(* no matching row nothing is written and nothing comes back                *)
Crud_update(tx, table, values) ==
    LET rows == {x \in Visible(tx, table) : x.id = values.id}
        cols == ViolatedColumns(Visible(tx, table) \ rows, table, values)
    IN IF rows = {} THEN CrudResult(Raise(NoResultFound), Execute(tx))
       ELSE IF cols # {}
       THEN CrudResult(Raise(IntegrityError(
                UniqueMsg(engine, table, CHOOSE c \in cols : TRUE))), Execute(tx))
       ELSE CrudResult(Return(values.id), Rewrite(tx, table, rows, {values}))

(* the same statement returning the row *)
Crud_update_and_get(tx, table, values) ==
    LET rows == {x \in Visible(tx, table) : x.id = values.id}
        cols == ViolatedColumns(Visible(tx, table) \ rows, table, values)
    IN IF rows = {} THEN CrudResult(Raise(NoResultFound), Execute(tx))
       ELSE IF cols # {}
       THEN CrudResult(Raise(IntegrityError(
                UniqueMsg(engine, table, CHOOSE c \in cols : TRUE))), Execute(tx))
       ELSE CrudResult(Return(values), Rewrite(tx, table, rows, {values}))

(* for obj in objs: await self.update(obj) -- from the i-th element on; a   *)
(* failure leaves the loop                                                  *)
RECURSIVE UpdateEach(_, _, _, _)
UpdateEach(tx, table, objs, i) ==
    IF i > Len(objs) THEN CrudResult(Return("None"), tx)
    ELSE LET res == Crud_update(tx, table, objs[i])
         IN IF Raised(res) THEN res ELSE UpdateEach(res.tx, table, objs, i + 1)

(* variant: a failure undoes the updates made before it *)
Crud_update_many_Atomic(tx, table, objs) ==
    LET res == UpdateEach(tx, table, objs, 1)
    IN IF Raised(res) THEN CrudResult(res, [tx EXCEPT !.stmts = res.tx.stmts]) ELSE res

Crud_update_many(tx, table, objs) == UpdateEach(tx, table, objs, 1)

(* variant: every id asked for has to match a row *)
Crud_get_many_by_ids_Strict(tx, table, ids) ==
    IF \E i \in Range(ids) : \A x \in Visible(tx, table) : x.id # i
    THEN CrudResult(Raise(NoResultFound), Execute(tx))
    ELSE CrudResult(Return({x \in Visible(tx, table) : x.id \in Range(ids)}), Execute(tx))

(* select ... where id in ids, then .all(): the rows that match, each once, *)
(* in the engine's order (the result is kept as the set of its rows)        *)
Crud_get_many_by_ids(tx, table, ids) ==
    CrudResult(Return({x \in Visible(tx, table) : x.id \in Range(ids)}), Execute(tx))

(* variant: deleting needs a row to delete *)
Crud_delete_many_Strict(tx, table, ids) ==
    IF \E i \in Range(ids) : \A x \in Visible(tx, table) : x.id # i
    THEN CrudResult(Raise(NoResultFound), Execute(tx))
    ELSE CrudResult(Return("None"),
             Rewrite(tx, table, {x \in Visible(tx, table) : x.id \in Range(ids)}, {}))

(* delete ... where id in ids: no row has to match *)
Crud_delete_many(tx, table, ids) ==
    CrudResult(Return("None"),
        Rewrite(tx, table, {x \in Visible(tx, table) : x.id \in Range(ids)}, {}))

(* delete ... where id == id_: no row has to match *)
Crud_delete(tx, table, id_) ==
    CrudResult(Return("None"),
        [Execute(tx) EXCEPT ![table] = {x \in @ : x.id # id_},
                   !.deleted = @ \cup {<<table, x>> : x \in {y \in db[table] : y.id = id_}}])

----------------------------------------------------------------------------
(* handle_exceptions and RepoMeta *)

StartsWith(msg, prefix) == Len(msg) > 0 /\ msg[1] = prefix
Contains(msg, part) == \E i \in 1..Len(msg) : msg[i] = part

(* variant: only the SQLite message is recognised *)
wrapper_SqliteOnly(entity_cls, res) ==
    IF res.exc.cls = "sqlalchemy.exc.NoResultFound"
    THEN CrudResult(Raise(NotFoundError(entity_cls)), res.tx)
    ELSE IF res.exc.cls = "sqlalchemy.exc.IntegrityError"
            /\ StartsWith(res.exc.msg, "(sqlite3.IntegrityError) UNIQUE constraint failed:")
    THEN CrudResult(Raise(AlreadyExistError(entity_cls)), res.tx)
    ELSE res

(* variant: an IntegrityError is always re-raised *)
wrapper_NoUnique(entity_cls, res) ==
    IF res.exc.cls = "sqlalchemy.exc.NoResultFound"
    THEN CrudResult(Raise(NotFoundError(entity_cls)), res.tx)
    ELSE res

(* the wrapper's except clauses: what leaves a wrapped repository method *)
wrapper(entity_cls, res) ==
    IF res.exc.cls = "sqlalchemy.exc.NoResultFound"
    THEN CrudResult(Raise(NotFoundError(entity_cls)), res.tx)
    ELSE IF res.exc.cls = "sqlalchemy.exc.IntegrityError"
    THEN IF StartsWith(res.exc.msg, "(sqlite3.IntegrityError) UNIQUE constraint failed:")
         THEN CrudResult(Raise(AlreadyExistError(entity_cls)), res.tx)
         ELSE IF Contains(res.exc.msg, "duplicate key value violates unique constraint")
         THEN CrudResult(Raise(AlreadyExistError(entity_cls)), res.tx)
         ELSE res
    ELSE res

(* A class attribute: its kind, how many handle_exceptions wrappers are     *)
(* around it, and the __handle_exceptions__ mark                            *)
Coroutine == [kind |-> "coroutine", wraps |-> 0, mark |-> FALSE]
Function == [kind |-> "function", wraps |-> 0, mark |-> FALSE]

(* the decorator: one more wrapper, marked *)
handle_exceptions(func) == [func EXCEPT !.wraps = @ + 1, !.mark = TRUE]

iscoroutinefunction(attr) == attr.kind = "coroutine"

(* variant: the __handle_exceptions__ mark is not consulted *)
RepoMeta_new_IgnoresMark(namespace) ==
    [name \in DOMAIN namespace |->
        IF iscoroutinefunction(namespace[name])
        THEN handle_exceptions(namespace[name])
        ELSE namespace[name]]

(* variant: the metaclass wraps nothing *)
RepoMeta_new_NoWrap(namespace) == namespace

(* RepoMeta.__new__ over the namespace of the class body *)
RepoMeta_new(namespace) ==
    [name \in DOMAIN namespace |->
        IF iscoroutinefunction(namespace[name]) /\ namespace[name].mark = FALSE
        THEN handle_exceptions(namespace[name])
        ELSE namespace[name]]

CrudMethods ==
    {"get_by_id", "create", "create_and_get", "create_many", "create_and_get_many",
     "update", "update_and_get", "update_many", "get_many_by_ids", "delete",
     "delete_many", "count", "get_all"}

RepoBaseBody ==
    [name \in CrudMethods \cup {"__init__"} |->
        IF name = "__init__" THEN Function ELSE Coroutine]
AuthRepoBody == [name \in {"__init__", "get_by_username"} |->
        IF name = "__init__" THEN Function ELSE Coroutine]
UserRepoBody == [name \in {"__init__", "get_by_username"} |->
        IF name = "__init__" THEN Function ELSE Coroutine]
QrCodeRepoBody == [name \in {"__init__", "get_all_user_qr_codes"} |->
        IF name = "__init__" THEN Function ELSE Coroutine]

(* class ...(base, metaclass=RepoMeta): the body as written and the         *)
(* namespace the class is created with                                      *)
ClassDef(base, body) == [base |-> base, body |-> body, ns |-> RepoMeta_new(body)]

(* the repository classes the source defines *)
SourceClasses ==
    [c \in {"RepoBase", "AuthRepo", "UserRepo", "QrCodeRepo"} |->
        CASE c = "RepoBase" -> ClassDef("", RepoBaseBody)
          [] c = "AuthRepo" -> ClassDef("RepoBase", AuthRepoBody)
          [] c = "UserRepo" -> ClassDef("RepoBase", UserRepoBody)
          [] c = "QrCodeRepo" -> ClassDef("RepoBase", QrCodeRepoBody)]

(* attribute lookup along the base classes *)
RECURSIVE Lookup(_, _, _)
Lookup(cs, c, name) ==
    IF c \notin DOMAIN cs THEN [kind |-> "missing", wraps |-> 0, mark |-> FALSE]
    ELSE IF name \in DOMAIN cs[c].ns THEN cs[c].ns[name]
    ELSE Lookup(cs, cs[c].base, name)

RECURSIVE Attributes(_, _)
Attributes(cs, c) ==
    IF c \notin DOMAIN cs THEN {}
    ELSE DOMAIN cs[c].ns \cup Attributes(cs, cs[c].base)

RECURSIVE Wrapped(_, _, _)
Wrapped(n, entity_cls, res) ==
    IF n = 0 THEN res ELSE Wrapped(n - 1, entity_cls, wrapper(entity_cls, res))

(* a call of method name on a repository of class c over entity_cls, whose  *)
(* body ends with outcome res                                               *)
Invoke(c, name, entity_cls, res) ==
    Wrapped(Lookup(classes, c, name).wraps, entity_cls, res)

----------------------------------------------------------------------------
(* RepoBase and its subclasses: the method bodies, called through the       *)
(* wrappers RepoMeta put around them                                        *)

(* variant: the repository is wired to the crud of another table *)
RepoBase_get_by_id_WrongTable(c, entity_cls, tx, id_) ==
    LET dto == Crud_get_by_id(tx, "user", id_)
    IN Invoke(c, "get_by_id", entity_cls,
              IF Raised(dto) THEN dto
              ELSE CrudResult(Return(deserialize(entity_cls, dto.val)), dto.tx))

RepoBase_get_by_id(c, entity_cls, tx, id_) ==
    LET dto == Crud_get_by_id(tx, TableOf(entity_cls), id_)
    IN Invoke(c, "get_by_id", entity_cls,
              IF Raised(dto) THEN dto
              ELSE CrudResult(Return(deserialize(entity_cls, dto.val)), dto.tx))

RepoBase_create_and_get(c, entity_cls, tx, model) ==
    LET dto == Crud_create_and_get(tx, TableOf(entity_cls), serialize(model))
    IN Invoke(c, "create_and_get", entity_cls,
              IF Raised(dto) THEN dto
              ELSE CrudResult(Return(deserialize(entity_cls, dto.val)), dto.tx))

(* variant: the batch form yields the elements last to first *)
flat_serialize_Reversed(models) ==
    [i \in 1..Len(models) |-> serialize(models[Len(models) + 1 - i])]

(* self.serializer.flat: the serializer applied to each element *)
flat_serialize(models) == [i \in 1..Len(models) |-> serialize(models[i])]
flat_deserialize(model, dtos) == [i \in 1..Len(dtos) |-> deserialize(model, dtos[i])]

RepoBase_create_many(c, entity_cls, tx, models) ==
    Invoke(c, "create_many", entity_cls,
           Crud_create_many(tx, TableOf(entity_cls), flat_serialize(models)))

RepoBase_create_and_get_many(c, entity_cls, tx, models) ==
    LET dtos == Crud_create_and_get_many(tx, TableOf(entity_cls),
                                         flat_serialize(models))
    IN Invoke(c, "create_and_get_many", entity_cls,
              IF Raised(dtos) THEN dtos
              ELSE CrudResult(Return(flat_deserialize(entity_cls, dtos.val)), dtos.tx))

RepoBase_delete(c, entity_cls, tx, id_) ==
    Invoke(c, "delete", entity_cls, Crud_delete(tx, TableOf(entity_cls), id_))

RepoBase_delete_many(c, entity_cls, tx, ids) ==
    Invoke(c, "delete_many", entity_cls, Crud_delete_many(tx, TableOf(entity_cls), ids))

RepoBase_get_many_by_ids(c, entity_cls, tx, ids) ==
    LET dtos == Crud_get_many_by_ids(tx, TableOf(entity_cls), ids)
    IN Invoke(c, "get_many_by_ids", entity_cls,
              IF Raised(dtos) THEN dtos
              ELSE CrudResult(Return({deserialize(entity_cls, dto) : dto \in dtos.val}),
                              dtos.tx))

RepoBase_update(c, entity_cls, tx, values) ==
    LET id_ == Crud_update(tx, TableOf(entity_cls), serialize(values))
    IN Invoke(c, "update", entity_cls,
              IF Raised(id_) THEN id_ ELSE CrudResult(Return("None"), id_.tx))

RepoBase_update_and_get(c, entity_cls, tx, values) ==
    LET dto == Crud_update_and_get(tx, TableOf(entity_cls), serialize(values))
    IN Invoke(c, "update_and_get", entity_cls,
              IF Raised(dto) THEN dto
              ELSE CrudResult(Return(deserialize(entity_cls, dto.val)), dto.tx))

RepoBase_update_many(c, entity_cls, tx, models) ==
    Invoke(c, "update_many", entity_cls,
           Crud_update_many(tx, TableOf(entity_cls), flat_serialize(models)))

(* select ... where user_id == user_id, then .all(): the rows that match,   *)
(* kept as a set                                                            *)
QrCodeCrud_get_all_user_qr_codes(tx, user_id) ==
    CrudResult(Return({x \in Visible(tx, "qr_code") : x.user_id = user_id}),
               Execute(tx))

QrCodeRepo_get_all_user_qr_codes(tx, user_id) ==
    LET qr_code == QrCodeCrud_get_all_user_qr_codes(tx, user_id)
    IN Invoke("QrCodeRepo", "get_all_user_qr_codes", "QrCode",
              IF Raised(qr_code) THEN qr_code
              ELSE CrudResult(Return({deserialize("QrCode", dto) : dto \in qr_code.val}),
                              qr_code.tx))

AuthRepo_get_by_username(tx, username) ==
    LET dto == AuthCrud_get_by_username(tx, username)
    IN Invoke("AuthRepo", "get_by_username", "Auth",
              IF Raised(dto) THEN dto
              ELSE CrudResult(Return(deserialize("Auth", dto.val)), dto.tx))

----------------------------------------------------------------------------
(* Passwords: a salted one-way hash *)

Salts == {"$2b$12$saltA"}

get_password_hash(password, salt) ==
    [scheme |-> "bcrypt", salt |-> salt, digest |-> <<salt, password>>]

verify_password(plain_password, hashed_password) ==
    hashed_password.digest = <<hashed_password.salt, plain_password>>

----------------------------------------------------------------------------
(* Tokens: signed claims. str(uuid) and UUID(str) convert identifiers       *)

str(uuid) == <<"str", uuid>>
UUID(s) == s[2]

None == [form |-> "None", claims |-> <<>>, key |-> ""]
EmptyString == [form |-> "", claims |-> <<>>, key |-> ""]
Malformed == [form |-> "not.a.jwt", claims |-> <<>>, key |-> ""]
Forged(token) == [token EXCEPT !.key = "another key"]

(* jwt.encode with settings.SECRET_KEY after adding the exp claim *)
create_jwt_token(data, expires_delta) ==
    LET expire == IF expires_delta # 0 THEN now + expires_delta ELSE now + 15
    IN [form |-> "jwt",
        claims |-> [k \in DOMAIN data \cup {"exp"} |->
                      IF k = "exp" THEN expire ELSE data[k]],
        key |-> SECRET_KEY]

(* variant: the exp claim is not verified *)
jwt_decode_NoExpiry(token) ==
    IF token.form # "jwt" THEN Raise(DecodeError)
    ELSE IF token.key # SECRET_KEY THEN Raise(DecodeError)
    ELSE Return(token.claims)

(* jwt.decode: the structure, then the signature, then the expiry *)
jwt_decode(token) ==
    IF token.form # "jwt" THEN Raise(DecodeError)
    ELSE IF token.key # SECRET_KEY THEN Raise(DecodeError)
    ELSE IF token.claims.exp <= now THEN Raise(ExpiredSignatureError)
    ELSE Return(token.claims)

Get(payload, key) == IF key \in DOMAIN payload THEN payload[key] ELSE "None"

AccessTokenPayload(user_id, username, is_admin) ==
    [user_id |-> user_id, username |-> username, is_admin |-> is_admin,
     token_type |-> "access"]

(* jsonable_encoder over dataclasses.asdict: the UUID becomes its string *)
jsonable_encoder(payload) == [payload EXCEPT !.user_id = str(@)]

(* variant: the access payload carries the Credential's id *)
create_access_refresh_token_pair_CredentialId(auth) ==
    LET payload == AccessTokenPayload(auth.id, auth.username, auth.is_admin)
        refresh_token_payload == [id |-> str(auth.id), token_type |-> "refresh"]
    IN [access |-> create_jwt_token(jsonable_encoder(payload),
                                    ACCESS_TOKEN_EXPIRE_MINUTES),
        refresh |-> create_jwt_token(refresh_token_payload,
                                     REFRESH_TOKEN_EXPIRE_MINUTES)]

create_access_refresh_token_pair(auth) ==
    LET payload == AccessTokenPayload(auth.user_id, auth.username, auth.is_admin)
        refresh_token_payload == [id |-> str(auth.id), token_type |-> "refresh"]
    IN [access |-> create_jwt_token(jsonable_encoder(payload),
                                    ACCESS_TOKEN_EXPIRE_MINUTES),
        refresh |-> create_jwt_token(refresh_token_payload,
                                     REFRESH_TOKEN_EXPIRE_MINUTES)]

decode_jwt_token(token) ==
    LET payload == jwt_decode(token)
    IN IF payload.exc = DecodeError THEN Raise(NotAuthorizedError)
       ELSE IF payload.exc = ExpiredSignatureError THEN Raise(NotAuthorizedError)
       ELSE payload

decode_access_token(token) ==
    LET payload == decode_jwt_token(token)
    IN IF Raised(payload) THEN payload
       ELSE IF Get(payload.val, "token_type") # "access" THEN Raise(NotAuthorizedError)
       ELSE Return(AccessTokenPayload(UUID(payload.val.user_id),
                                      payload.val.username, FALSE))

(* auth/dependencies.py: what a route's Depends(...) resolves to, given the *)
(* payload access_token_payload decoded                                     *)
logged_in_user_id(payload) == Return(payload.user_id)

(* variant: the gate does not look at is_admin *)
logged_in_admin_id_Unchecked(payload) == Return(payload.user_id)

logged_in_admin_id(payload) ==
    IF ~payload.is_admin THEN Raise(AdminRightsRequiredError)
    ELSE Return(payload.user_id)

----------------------------------------------------------------------------
(* AuthService and UserService. Each outcome carries the session's          *)
(* transaction and the collaborators the call reached, in order             *)

Outcome(res, tx, trace) ==
    [exc |-> res.exc, val |-> res.val, tx |-> tx, trace |-> trace]

create_auth(tx, id, user_id, username, password, salt) ==
    LET password_hash == get_password_hash(password, salt)
        auth == Auth(id, user_id, username, password_hash)
    IN RepoBase_create_and_get("AuthRepo", "Auth", tx, auth)

(* variant: Auth.NotFoundError is not caught *)
login_NotFoundEscapes(tx, username, password) ==
    LET user == AuthRepo_get_by_username(tx, username)
        trace == <<"auth_repo.get_by_username">>
    IN IF Raised(user) THEN Outcome(user, user.tx, trace)
       ELSE IF ~verify_password(password, user.val.password_hash)
       THEN Outcome(Raise(InvalidLoginOrPasswordError), user.tx, trace)
       ELSE Outcome(Return(create_access_refresh_token_pair(user.val)), user.tx, trace)

(* variant: a successful login stores the password under a new salt *)
login_Rehash(tx, username, password) ==
    LET user == AuthRepo_get_by_username(tx, username)
        trace == <<"auth_repo.get_by_username">>
    IN IF user.exc = NotFoundError("Auth")
       THEN Outcome(Raise(InvalidLoginOrPasswordError), user.tx, trace)
       ELSE IF Raised(user) THEN Outcome(user, user.tx, trace)
       ELSE IF ~verify_password(password, user.val.password_hash)
       THEN Outcome(Raise(InvalidLoginOrPasswordError), user.tx, trace)
       ELSE Outcome(Return(create_access_refresh_token_pair(user.val)),
                    RepoBase_update("AuthRepo", "Auth", user.tx,
                        [user.val EXCEPT !.password_hash =
                            get_password_hash(password, "$2b$12$saltB")]).tx,
                    trace)

login(tx, username, password) ==
    LET user == AuthRepo_get_by_username(tx, username)
        trace == <<"auth_repo.get_by_username">>
    IN IF user.exc = NotFoundError("Auth")
       THEN Outcome(Raise(InvalidLoginOrPasswordError), user.tx, trace)
       ELSE IF Raised(user) THEN Outcome(user, user.tx, trace)
       ELSE IF ~verify_password(password, user.val.password_hash)
       THEN Outcome(Raise(InvalidLoginOrPasswordError), user.tx, trace)
       ELSE Outcome(Return(create_access_refresh_token_pair(user.val)), user.tx, trace)

(* refresh after the check that a token was given: lines 125-133 *)
refresh_decoded(tx, refresh_token) ==
    LET payload == jwt_decode(refresh_token)
        decoded == <<"jwt.decode">>
    IN IF Raised(payload) THEN Outcome(payload, tx, decoded)
       ELSE IF Get(payload.val, "token_type") # "refresh"
       THEN Outcome(Raise(NotAuthorizedError), tx, decoded)
       ELSE IF "id" \notin DOMAIN payload.val
       THEN Outcome(Raise(NotAuthorizedError), tx, decoded)
       ELSE LET auth == RepoBase_get_by_id("AuthRepo", "Auth", tx,
                                           UUID(payload.val.id))
                looked == <<"jwt.decode", "auth_repo.get_by_id">>
            IN IF Raised(auth) THEN Outcome(auth, auth.tx, looked)
               ELSE Outcome(Return(create_access_refresh_token_pair(auth.val)),
                            auth.tx, looked)

(* variant: the token is decoded before it is checked to be there *)
refresh_DecodesFirst(tx, refresh_token) == refresh_decoded(tx, refresh_token)

(* variant: a refresh token is accepted once *)
refresh_SingleUse(tx, refresh_token) ==
    IF refresh_token.form \in {"None", ""}
    THEN Outcome(Raise(RefreshTokenRequiredError), tx, <<>>)
    ELSE IF refresh_token \in rotated
    THEN Outcome(Raise(NotAuthorizedError), tx, <<>>)
    ELSE refresh_decoded(tx, refresh_token)

(* variant: the new access token repeats the claims of the access token    *)
(* issued with the refresh token                                            *)
refresh_Stale(tx, refresh_token) ==
    IF refresh_token.form \in {"None", ""}
    THEN Outcome(Raise(RefreshTokenRequiredError), tx, <<>>)
    ELSE LET res == refresh_decoded(tx, refresh_token)
             issued == {pair \in held : pair.refresh = refresh_token}
         IN IF Raised(res) \/ issued = {} THEN res
            ELSE LET old == (CHOOSE pair \in issued : TRUE).access.claims
                 IN [res EXCEPT !.val.access.claims.username = old.username,
                                !.val.access.claims.is_admin = old.is_admin]

refresh(tx, refresh_token) ==
    IF refresh_token.form \in {"None", ""}
    THEN Outcome(Raise(RefreshTokenRequiredError), tx, <<>>)
    ELSE refresh_decoded(tx, refresh_token)

(* UserService.register: the Account, then the Credential, then the pair *)
register(tx, user_id, auth_id, username, password, salt) ==
    LET user == RepoBase_create_and_get("UserRepo", "User", tx, User(user_id, username))
    IN IF Raised(user) THEN Outcome(user, user.tx, <<"user_repo.create_and_get">>)
       ELSE LET auth == create_auth(user.tx, auth_id, user.val.id, username,
                                    password, salt)
                trace == <<"user_repo.create_and_get", "auth_repo.create_and_get">>
            IN IF Raised(auth) THEN Outcome(auth, auth.tx, trace)
               ELSE Outcome(Return(create_access_refresh_token_pair(auth.val)),
                            auth.tx, trace)

(* QrCodeService *)
create_qr_code(tx, id, user_id, name, link) ==
    RepoBase_create_and_get("QrCodeRepo", "QrCode", tx, QrCode(id, user_id, name, link))

(* variant: the owner is not compared with the caller *)
delete_qr_code_AnyCaller(tx, user_id, qr_code_id) ==
    LET qr_code == RepoBase_get_by_id("QrCodeRepo", "QrCode", tx, qr_code_id)
    IN IF Raised(qr_code) THEN qr_code
       ELSE RepoBase_delete("QrCodeRepo", "QrCode", qr_code.tx, qr_code.val.id)

delete_qr_code(tx, user_id, qr_code_id) ==
    LET qr_code == RepoBase_get_by_id("QrCodeRepo", "QrCode", tx, qr_code_id)
    IN IF Raised(qr_code) THEN qr_code
       ELSE IF qr_code.val.user_id # user_id
       THEN CrudResult(Raise(NotFoundError("QrCode")), qr_code.tx)
       ELSE RepoBase_delete("QrCodeRepo", "QrCode", qr_code.tx, qr_code.val.id)

(* variant: the caller becomes the owner of the record it updates *)
update_qr_code_TakesOver(tx, user_id, qr_code_id, name, link) ==
    LET qr_code == RepoBase_get_by_id("QrCodeRepo", "QrCode", tx, qr_code_id)
    IN IF Raised(qr_code) THEN qr_code
       ELSE RepoBase_update_and_get("QrCodeRepo", "QrCode", qr_code.tx,
                [qr_code.val EXCEPT !.link = link, !.name = name,
                                    !.user_id = user_id])

update_qr_code(tx, user_id, qr_code_id, name, link) ==
    LET qr_code == RepoBase_get_by_id("QrCodeRepo", "QrCode", tx, qr_code_id)
    IN IF Raised(qr_code) THEN qr_code
       ELSE IF qr_code.val.user_id # user_id
       THEN CrudResult(Raise(NotFoundError("QrCode")), qr_code.tx)
       ELSE RepoBase_update_and_get("QrCodeRepo", "QrCode", qr_code.tx,
                [qr_code.val EXCEPT !.link = link, !.name = name])

get_all_user_qr_codes(tx, user_id) == QrCodeRepo_get_all_user_qr_codes(tx, user_id)

----------------------------------------------------------------------------
(* State shared by the specifications *)

NoPair == [access |-> None, refresh |-> None]
NoCall == [op |-> "none", username |-> "", password |-> "", pair |-> NoPair,
           token |-> None, payload |-> <<>>, again |-> FALSE,
           res |-> Outcome(Return(<<>>), EmptyTx, <<>>)]
Idle == [pc |-> "idle", username |-> "", password |-> "", tx |-> EmptyTx,
         user_id |-> 0, auth_id |-> 0, res |-> Return(<<>>), raced |-> FALSE,
         session |-> "none"]
NoRepoCall == [cls |-> "", name |-> "", entity |-> "", kind |-> "none",
               raw |-> Return(<<>>), out |-> Return(<<>>),
               args |-> <<>>, before |-> {}]

InitCommon ==
    /\ db = [user |-> {}, auth |-> {}, qr_code |-> {}]
    /\ nextId = 1
    /\ now = 0
    /\ ticks = 0
    /\ held = {}
    /\ last = NoCall
    /\ reqs = [r \in 1..MaxReq |-> Idle]
    /\ classes = SourceClasses
    /\ call = NoRepoCall
    /\ rotated = {}
    /\ created = {}

(* session.commit(): the transaction's rows become the committed rows *)
Committed(tx) ==
    [user |-> Visible(tx, "user"), auth |-> Visible(tx, "auth"),
     qr_code |-> Visible(tx, "qr_code")]

----------------------------------------------------------------------------
(* Spec: the token lifecycle. Every request runs alone in its own session   *)

(* the tokens a caller can present: those of a pair it holds, the same with *)
(* a signature made under another key, or none at all                       *)
TokensOf(pair) ==
    IF pair = NoPair THEN {None, EmptyString, Malformed}
    ELSE {pair.access, pair.refresh, Forged(pair.access), Forged(pair.refresh)}

(* the caller keeps the pair it was handed *)
Keep(pair) ==
    \/ /\ (pair \in held \/ Cardinality(held) < MaxHeld)
       /\ held' = held \cup {pair}
    \/ /\ pair \notin held
       /\ Cardinality(held) >= MaxHeld
       /\ \E old \in held : held' = (held \ {old}) \cup {pair}

Called(op, username, password, pair, token, res) ==
    last' = [op |-> op, username |-> username, password |-> password,
             pair |-> pair, token |-> token, payload |-> <<>>, again |-> FALSE,
             res |-> res]

(* POST /register: UserService.register, then session.commit() *)
Register(username, password, salt) ==
    LET res == register(EmptyTx, nextId, nextId + 1, username, password, salt)
    IN /\ Called("register", username, password, NoPair, None, res)
       /\ IF Raised(res)
          THEN UNCHANGED <<db, nextId, held>>
          ELSE /\ db' = Committed(res.tx)
               /\ nextId' = nextId + 2
               /\ Keep(res.val)
       /\ UNCHANGED <<engine, now, ticks, reqs, classes, call, rotated, created>>

(* POST /login *)
Login(username, password) ==
    LET res == login(EmptyTx, username, password)
    IN /\ Called("login", username, password, NoPair, None, res)
       /\ IF Raised(res) THEN UNCHANGED held ELSE Keep(res.val)
       /\ UNCHANGED <<engine, db, nextId, now, ticks, reqs, classes, call, rotated, created>>

(* POST /refresh with the cookie's token *)
Refresh(pair, token) ==
    LET res == refresh(EmptyTx, token)
    IN /\ Called("refresh", "", "", pair, token, res)
       /\ IF Raised(res) THEN UNCHANGED held ELSE Keep(res.val)
       /\ UNCHANGED <<engine, db, nextId, now, ticks, reqs, classes, call, rotated, created>>

(* the access_token_payload dependency of a protected route *)
DecodeAccess(pair, token) ==
    LET res == decode_access_token(token)
    IN /\ Called("decode_access_token", "", "", pair, token,
                 Outcome(res, EmptyTx, <<>>))
       /\ UNCHANGED <<engine, db, nextId, now, ticks, held, reqs, classes, call, rotated, created>>

(* the AccessTokenPayload values a route guarded by the admin gate can be   *)
(* given for a stored Credential                                            *)
Payloads ==
    {AccessTokenPayload(a.user_id, a.username, is_admin) :
        a \in db.auth, is_admin \in BOOLEAN}

(* Depends(logged_in_admin_id) of an admin-only route *)
LoggedInAdminId(payload) ==
    /\ last' = [NoCall EXCEPT !.op = "logged_in_admin_id", !.payload = payload,
                   !.res = Outcome(logged_in_admin_id(payload), EmptyTx, <<>>)]
    /\ UNCHANGED <<engine, db, nextId, now, ticks, held, reqs, classes, call, rotated, created>>

(* time passes: up to the expiry of an access token or of a refresh token *)
Tick(minutes) ==
    /\ ticks < MaxTicks
    /\ now' = now + minutes
    /\ ticks' = ticks + 1
    /\ last' = [NoCall EXCEPT !.op = "tick"]
    /\ UNCHANGED <<engine, db, nextId, held, reqs, classes, call, rotated, created>>

Next ==
    \/ \E u \in Usernames, p \in Passwords, s \in Salts : Register(u, p, s)
    \/ \E u \in Usernames, p \in Passwords : Login(u, p)
    \/ \E pair \in held \cup {NoPair} : \E t \in TokensOf(pair) : Refresh(pair, t)
    \/ \E pair \in held \cup {NoPair} : \E t \in TokensOf(pair) : DecodeAccess(pair, t)
    \/ \E payload \in Payloads : LoggedInAdminId(payload)
    \/ \E m \in {ACCESS_TOKEN_EXPIRE_MINUTES, REFRESH_TOKEN_EXPIRE_MINUTES} : Tick(m)

(* DB_URI as settings.py sets it *)
Init == engine = "sqlite" /\ InitCommon

Spec == Init /\ [][Next]_vars

----------------------------------------------------------------------------
(* SpecLife: refresh tokens over their lifetime. A refresh token stays with *)
(* whoever saw it, so it can be presented again after the pair it came with *)
(* was replaced, and a Credential can be deleted through its repository     *)

LifeRefresh(token) ==
    LET res == refresh(EmptyTx, token)
    IN /\ last' = [NoCall EXCEPT !.op = "refresh", !.token = token,
                      !.again = (token \in rotated), !.res = res]
       /\ IF Raised(res) THEN UNCHANGED <<held, rotated, created>>
          ELSE /\ Keep(res.val)
               /\ rotated' = IF Cardinality(rotated) < MaxRotated
                             THEN rotated \cup {token} ELSE rotated
       /\ UNCHANGED <<engine, db, nextId, now, ticks, reqs, classes, call, created>>

(* await auth_repo.delete(id_), then session.commit() *)
LifeDelete(id_) ==
    LET res == RepoBase_delete("AuthRepo", "Auth", EmptyTx, id_)
    IN /\ last' = [NoCall EXCEPT !.op = "delete",
                      !.res = Outcome(res, res.tx, <<"auth_repo.delete">>)]
       /\ db' = IF Raised(res) THEN db ELSE Committed(res.tx)
       /\ UNCHANGED <<engine, nextId, now, ticks, held, reqs, classes, call, rotated, created>>

NextLife ==
    \/ \E u \in Usernames, s \in Salts : Register(u, "s3cret!", s)
    \/ \E t \in {pair.refresh : pair \in held} \cup rotated : LifeRefresh(t)
    \/ \E a \in db.auth : LifeDelete(a.id)
    \/ \E m \in {ACCESS_TOKEN_EXPIRE_MINUTES, REFRESH_TOKEN_EXPIRE_MINUTES} : Tick(m)

SpecLife == Init /\ [][NextLife]_vars

----------------------------------------------------------------------------
(* SpecAdmin: Credentials are changed in storage between the token          *)
(* operations                                                               *)

(* await auth_repo.update(values), then session.commit() *)
UpdateAuth(values) ==
    LET res == RepoBase_update("AuthRepo", "Auth", EmptyTx, deserialize("Auth", values))
    IN /\ last' = [NoCall EXCEPT !.op = "update",
                      !.res = Outcome(res, res.tx, <<"auth_repo.update">>)]
       /\ db' = IF Raised(res) THEN db ELSE Committed(res.tx)
       /\ UNCHANGED <<engine, nextId, now, ticks, held, reqs, classes, call, rotated, created>>

(* a route with Depends(logged_in_admin_id): access_token_payload decodes   *)
(* the bearer token, then the gate                                          *)
AdminRoute(pair) ==
    LET payload == decode_access_token(pair.access)
    IN /\ last' = [NoCall EXCEPT !.op = "logged_in_admin_id", !.pair = pair,
                      !.token = pair.access,
                      !.res = Outcome(IF Raised(payload) THEN payload
                                      ELSE logged_in_admin_id(payload.val),
                                      EmptyTx, <<>>)]
       /\ UNCHANGED <<engine, db, nextId, now, ticks, held, reqs, classes, call, rotated, created>>

NextAdmin ==
    \/ \E u \in Usernames, s \in Salts : Register(u, "s3cret!", s)
    \/ \E a \in db.auth, u \in Usernames, b \in BOOLEAN :
          UpdateAuth([a EXCEPT !.username = u, !.is_admin = b])
    \/ \E u \in Usernames : Login(u, "s3cret!")
    \/ \E pair \in held : Refresh(pair, pair.refresh)
    \/ \E pair \in held : DecodeAccess(pair, pair.access)
    \/ \E pair \in held : AdminRoute(pair)

SpecAdmin == Init /\ [][NextAdmin]_vars

----------------------------------------------------------------------------
(* SpecQr: users create, update, delete and list QR codes. A route commits  *)
(* after its service call returned; a failed call commits nothing           *)

(* the call made, its arguments and outcome, and the QR codes stored before *)
QrCalled(name, args, res) ==
    /\ call' = [NoRepoCall EXCEPT !.cls = "QrCodeService", !.name = name,
                   !.entity = "QrCode", !.args = args, !.before = db.qr_code,
                   !.out = res]
    /\ db' = IF Raised(res) THEN db ELSE Committed(res.tx)

CreateQrCode(user_id, name, link) ==
    LET res == create_qr_code(EmptyTx, nextId, user_id, name, link)
    IN /\ nextId <= MaxQr
       /\ QrCalled("create_qr_code",
                   [user_id |-> user_id, qr_code_id |-> 0, name |-> name,
                    link |-> link], res)
       /\ nextId' = nextId + 1
       /\ created' = IF Raised(res) THEN created
                     ELSE created \cup {[id |-> res.val.id, user_id |-> user_id]}
       /\ UNCHANGED <<engine, now, ticks, held, last, reqs, classes, rotated>>

DeleteQrCode(user_id, qr_code_id) ==
    /\ QrCalled("delete_qr_code",
                [user_id |-> user_id, qr_code_id |-> qr_code_id, name |-> "",
                 link |-> ""],
                delete_qr_code(EmptyTx, user_id, qr_code_id))
    /\ UNCHANGED <<engine, nextId, now, ticks, held, last, reqs, classes, rotated,
                   created>>

UpdateQrCode(user_id, qr_code_id, name, link) ==
    /\ QrCalled("update_qr_code",
                [user_id |-> user_id, qr_code_id |-> qr_code_id, name |-> name,
                 link |-> link],
                update_qr_code(EmptyTx, user_id, qr_code_id, name, link))
    /\ UNCHANGED <<engine, nextId, now, ticks, held, last, reqs, classes, rotated,
                   created>>

GetAllUserQrCodes(user_id) ==
    /\ QrCalled("get_all_user_qr_codes",
                [user_id |-> user_id, qr_code_id |-> 0, name |-> "", link |-> ""],
                get_all_user_qr_codes(EmptyTx, user_id))
    /\ UNCHANGED <<engine, nextId, now, ticks, held, last, reqs, classes, rotated,
                   created>>

(* the callers are users 1 and 2; 0 stands for "no qr_code_id given" *)
NextQr ==
    \E u \in {1, 2} :
        \/ \E n \in {"menu", "promo"}, l \in {"https://a.example", "https://b.example"} :
              \/ CreateQrCode(u, n, l)
              \/ \E q \in 1..MaxQr : UpdateQrCode(u, q, n, l)
        \/ \E q \in 1..MaxQr : DeleteQrCode(u, q)
        \/ GetAllUserQrCodes(u)

SpecQr == Init /\ [][NextQr]_vars

----------------------------------------------------------------------------
(* SpecAuth: accounts are registered, then one create_auth call is made and *)
(* observed                                                                 *)

(* await auth_service.create_auth(user_id, username, password) *)
CreateAuth(user_id, username, password, salt) ==
    LET res == create_auth(EmptyTx, nextId, user_id, username, password, salt)
    IN /\ call = NoRepoCall
       /\ call' = [NoRepoCall EXCEPT !.cls = "AuthService", !.name = "create_auth",
                      !.entity = "Auth",
                      !.args = [user_id |-> user_id, username |-> username,
                                password |-> password],
                      !.before = db.auth, !.out = res]
       /\ db' = Committed(res.tx)
       /\ nextId' = IF Raised(res) THEN nextId ELSE nextId + 1
       /\ UNCHANGED <<engine, now, ticks, held, last, reqs, classes, rotated, created>>

NextAuth ==
    \/ \E u \in Usernames, p \in Passwords, s \in Salts :
          call = NoRepoCall /\ Register(u, p, s)
    \/ \E u \in Usernames, p \in Passwords, s \in Salts :
          \E user_id \in Ids(db.user) \cup {nextId} : CreateAuth(user_id, u, p, s)

SpecAuth == Init /\ [][NextAuth]_vars

----------------------------------------------------------------------------
(* SpecReg: register requests running concurrently, each in the session     *)
(* ConnectionProvider.session gives it                                      *)

(* the engine makes a writer wait while another open transaction holds a    *)
(* row with the same unique value                                           *)
Blocked(r, table, dto) ==
    \E q \in DOMAIN reqs :
        q # r /\ ViolatedColumns(reqs[q].tx[table], table, dto) # {}

(* a request for the same username is under way *)
InFlight(username) ==
    \E q \in DOMAIN reqs :
        reqs[q].username = username /\ reqs[q].pc \notin {"idle", "done"}

(* the request arrives: the session is opened. raced notes that it runs     *)
(* while another request for the same username does                         *)
RegStart(r, username, password) ==
    /\ reqs[r].pc = "idle"
    /\ reqs' = [reqs EXCEPT ![r] = [Idle EXCEPT !.pc = "create_user",
                   !.username = username, !.password = password,
                   !.raced = InFlight(username), !.session = "open"]]
    /\ UNCHANGED <<engine, db, nextId, now, ticks, held, last, classes, call, rotated, created>>

(* variant: the failure leaves the session as it is *)
Failed_Leaks(r, res) ==
    [reqs EXCEPT ![r].pc = "done", ![r].res = Raise(res.exc)]

(* the request fails: no commit; the failure leaves the async with block   *)
(* of the session, which closes it and rolls back                           *)
Failed(r, res) ==
    [reqs EXCEPT ![r].pc = "done", ![r].tx = EmptyTx, ![r].res = Raise(res.exc),
                 ![r].session = "closed"]

(* variant: the session commits each statement as it is executed *)
RegCreateUser_Autocommit(r) ==
    LET req == reqs[r]
        model == User(nextId, req.username)
        res == RepoBase_create_and_get("UserRepo", "User", req.tx, model)
    IN /\ req.pc = "create_user"
       /\ ~Blocked(r, "user", serialize(model))
       /\ IF Raised(res)
          THEN reqs' = Failed(r, res) /\ UNCHANGED <<nextId, db>>
          ELSE /\ reqs' = [reqs EXCEPT ![r].pc = "create_auth",
                              ![r].user_id = res.val.id]
               /\ db' = Committed(res.tx)
               /\ nextId' = nextId + 1
       /\ UNCHANGED <<engine, now, ticks, held, last, classes, call, rotated, created>>

(* user = await self.user_repo.create_and_get(User(username=username)) *)
RegCreateUser(r) ==
    LET req == reqs[r]
        model == User(nextId, req.username)
        res == RepoBase_create_and_get("UserRepo", "User", req.tx, model)
    IN /\ req.pc = "create_user"
       /\ ~Blocked(r, "user", serialize(model))
       /\ IF Raised(res)
          THEN reqs' = Failed(r, res) /\ UNCHANGED nextId
          ELSE /\ reqs' = [reqs EXCEPT ![r].pc = "create_auth", ![r].tx = res.tx,
                              ![r].user_id = res.val.id]
               /\ nextId' = nextId + 1
       /\ UNCHANGED <<engine, db, now, ticks, held, last, classes, call, rotated, created>>

(* auth = await self.auth_service.create_auth(user.id, username, password), *)
(* then the token pair                                                      *)
RegCreateAuth(r, salt) ==
    LET req == reqs[r]
        res == create_auth(req.tx, nextId, req.user_id, req.username,
                           req.password, salt)
    IN /\ req.pc = "create_auth"
       /\ ~Blocked(r, "auth", serialize(Auth(nextId, req.user_id, req.username,
                                             get_password_hash(req.password, salt))))
       /\ IF Raised(res)
          THEN reqs' = Failed(r, res) /\ UNCHANGED nextId
          ELSE /\ reqs' = [reqs EXCEPT ![r].pc = "commit", ![r].tx = res.tx,
                              ![r].auth_id = res.val.id,
                              ![r].res = Return(create_access_refresh_token_pair(res.val))]
               /\ nextId' = nextId + 1
       /\ UNCHANGED <<engine, db, now, ticks, held, last, classes, call, rotated, created>>

(* await session.commit() in the router, then the response; the request    *)
(* scope ends and the session's async with block is left                    *)
RegCommit(r) ==
    /\ reqs[r].pc = "commit"
    /\ db' = Committed(reqs[r].tx)
    /\ reqs' = [reqs EXCEPT ![r].pc = "done", ![r].tx = EmptyTx,
                            ![r].session = "closed"]
    /\ UNCHANGED <<engine, nextId, now, ticks, held, last, classes, call, rotated, created>>

NextReg ==
    \/ \E r \in 1..MaxReq, u \in Usernames, p \in Passwords : RegStart(r, u, p)
    \/ \E r \in 1..MaxReq : RegCreateUser(r)
    \/ \E r \in 1..MaxReq, s \in Salts : RegCreateAuth(r, s)
    \/ \E r \in 1..MaxReq : RegCommit(r)

InitReg == engine \in Engines /\ InitCommon

SpecReg == InitReg /\ [][NextReg]_vars

----------------------------------------------------------------------------
(* SpecRepo: repository classes defined through RepoMeta, and calls of      *)
(* their coroutine methods whose storage statement fails in every way       *)

NewClasses == {"NewRepo"}
BodyNames == {"get_by_id", "find_by_name"}

(* what a class body can bind a name to: a coroutine function, a plain      *)
(* function, or a coroutine function decorated with @handle_exceptions      *)
Attrs == {Coroutine, Function, handle_exceptions(Coroutine)}
Bodies == UNION {[names -> Attrs] : names \in SUBSET BodyNames}

(* class name(base): body *)
DefineClass(name, base, body) ==
    /\ name \notin DOMAIN classes
    /\ base \in DOMAIN classes
    /\ classes' = [c \in DOMAIN classes \cup {name} |->
                      IF c = name THEN ClassDef(base, body) ELSE classes[c]]
    /\ UNCHANGED <<engine, db, nextId, now, ticks, held, last, reqs, call, rotated, created>>

FailureKinds ==
    {"none", "row-not-found", "unique", "not-null", "multiple-rows",
     "operational", "entity-not-found"}

NotNullMsg(eng, table, col) ==
    IF eng = "sqlite"
    THEN <<"(sqlite3.IntegrityError) NOT NULL constraint failed:", table, col>>
    ELSE <<"(sqlalchemy.dialects.postgresql.asyncpg.IntegrityError)",
           "null value in column violates not-null constraint", table, col>>

(* how a repository method's body can end *)
BodyOutcome(kind, entity_cls) ==
    CASE kind = "none" -> Return(<<"row">>)
      [] kind = "row-not-found" -> Raise(NoResultFound)
      [] kind = "unique" ->
            Raise(IntegrityError(UniqueMsg(engine, TableOf(entity_cls), "username")))
      [] kind = "not-null" ->
            Raise(IntegrityError(NotNullMsg(engine, TableOf(entity_cls), "username")))
      [] kind = "multiple-rows" -> Raise(Exc("sqlalchemy.exc.MultipleResultsFound", "", <<>>))
      [] kind = "operational" -> Raise(Exc("sqlalchemy.exc.OperationalError", "", <<>>))
      [] OTHER -> Raise(NotFoundError(entity_cls))

EntitiesOf(c) ==
    CASE c = "AuthRepo" -> {"Auth"}
      [] c = "UserRepo" -> {"User"}
      [] c = "QrCodeRepo" -> {"QrCode"}
      [] OTHER -> Entities

CalledNames ==
    {"get_by_id", "create_and_get", "get_by_username", "get_all_user_qr_codes",
     "find_by_name"}

(* await repo.name(...) on an instance of class c: the one call observed *)
RepoCall(c, name, entity_cls, kind) ==
    LET raw == CrudResult(BodyOutcome(kind, entity_cls), EmptyTx)
    IN /\ call = NoRepoCall
       /\ c \in DOMAIN classes
       /\ name \in Attributes(classes, c)
       /\ iscoroutinefunction(Lookup(classes, c, name))
       /\ call' = [cls |-> c, name |-> name, entity |-> entity_cls, kind |-> kind,
                   raw |-> raw, out |-> Invoke(c, name, entity_cls, raw),
                   args |-> <<>>, before |-> {}]
       /\ UNCHANGED <<engine, db, nextId, now, ticks, held, last, reqs, classes, rotated, created>>

NextRepo ==
    \/ \E name \in NewClasses, base \in DOMAIN classes, body \in Bodies :
          DefineClass(name, base, body)
    \/ \E c \in DOMAIN classes, name \in CalledNames : \E e \in EntitiesOf(c),
          kind \in FailureKinds : RepoCall(c, name, e, kind)

SpecRepo == InitReg /\ [][NextRepo]_vars

----------------------------------------------------------------------------
(* SpecCrud: the generic repository operations on a table with a unique     *)
(* column, through UserRepo. Rows are first stored one by one; then one     *)
(* call is made and observed, and the session's rows become the store       *)

CrudModels == {User(i, u) : i \in 1..MaxId, u \in Usernames}
Batches == UNION {[1..n -> CrudModels] : n \in 0..MaxBatch}

(* await user_repo.create_and_get(model), then session.commit() *)
CrudSeed(model) ==
    LET res == RepoBase_create_and_get("UserRepo", "User", EmptyTx, model)
    IN /\ call = NoRepoCall
       /\ ~Raised(res)
       /\ db' = Committed(res.tx)
       /\ UNCHANGED <<engine, nextId, now, ticks, held, last, reqs, classes, call, rotated, created>>

(* the observed call: its name, arguments, outcome and the rows before it *)
Observed(name, args, res) ==
    /\ call = NoRepoCall
    /\ call' = [NoRepoCall EXCEPT !.cls = "UserRepo", !.name = name,
                   !.entity = "User", !.args = args, !.before = db.user,
                   !.out = res]
    /\ db' = Committed(res.tx)
    /\ UNCHANGED <<engine, nextId, now, ticks, held, last, reqs, classes, rotated, created>>

CreateMany(models) ==
    Observed("create_many", models,
             RepoBase_create_many("UserRepo", "User", EmptyTx, models))

CreateAndGetMany(models) ==
    Observed("create_and_get_many", models,
             RepoBase_create_and_get_many("UserRepo", "User", EmptyTx, models))

IdLists == UNION {[1..n -> 1..MaxId] : n \in 0..MaxBatch}

Delete(id_) ==
    Observed("delete", id_, RepoBase_delete("UserRepo", "User", EmptyTx, id_))

DeleteMany(ids) ==
    Observed("delete_many", ids, RepoBase_delete_many("UserRepo", "User", EmptyTx, ids))

GetManyByIds(ids) ==
    Observed("get_many_by_ids", ids,
             RepoBase_get_many_by_ids("UserRepo", "User", EmptyTx, ids))

Update(values) ==
    Observed("update", values, RepoBase_update("UserRepo", "User", EmptyTx, values))

UpdateAndGet(values) ==
    Observed("update_and_get", values,
             RepoBase_update_and_get("UserRepo", "User", EmptyTx, values))

(* serializer.flat.serialize(models), then flat.deserialize of the result *)
Convert(models) ==
    /\ call = NoRepoCall
    /\ call' = [NoRepoCall EXCEPT !.cls = "DataclassSerializer", !.name = "flat",
                   !.entity = "User", !.args = models,
                   !.out = Return([dtos |-> flat_serialize(models),
                                   back |-> flat_deserialize("User", flat_serialize(models))])]
    /\ UNCHANGED <<engine, db, nextId, now, ticks, held, last, reqs, classes, rotated, created>>

UpdateMany(models) ==
    Observed("update_many", models,
             RepoBase_update_many("UserRepo", "User", EmptyTx, models))

NextCrud ==
    \/ \E model \in CrudModels : CrudSeed(model)
    \/ \E models \in Batches : UpdateMany(models)
    \/ \E models \in Batches : Convert(models)
    \/ \E models \in Batches : CreateMany(models)
    \/ \E models \in Batches : CreateAndGetMany(models)
    \/ \E id_ \in 1..MaxId : Delete(id_)
    \/ \E ids \in IdLists : DeleteMany(ids)
    \/ \E ids \in IdLists : GetManyByIds(ids)
    \/ \E values \in CrudModels : Update(values)
    \/ \E values \in CrudModels : UpdateAndGet(values)

SpecCrud == InitReg /\ [][NextCrud]_vars

----------------------------------------------------------------------------
(* Properties of the token lifecycle (Spec) *)

(* the password a stored Credential was created with *)
PasswordOf(auth) == auth.password_hash.digest[2]
StoredAuth(username) == {a \in db.auth : a.username = username}
Expired(token) == token.claims.exp <= now

(* C1: login raises InvalidLoginOrPasswordError and returns no pair, both  *)
(* when no Credential has the username and when a Credential has it but    *)
(* the password is not the one it was created with                         *)
C1_LoginFailsAlike ==
    (/\ last.op = "login"
     /\ \A a \in StoredAuth(last.username) : PasswordOf(a) # last.password)
    => /\ last.res.exc = InvalidLoginOrPasswordError
       /\ last.res.val = <<>>

C1_Witness ==
    /\ last.op = "login"
    /\ StoredAuth(last.username) # {}
    /\ \A a \in StoredAuth(last.username) : PasswordOf(a) # last.password
    /\ last.res.exc = InvalidLoginOrPasswordError
    /\ \E u \in Usernames : StoredAuth(u) = {}

(* C2: refresh with a non-empty token that is malformed, whose signature   *)
(* does not verify or whose expiry has passed raises NotAuthorizedError    *)
(* and returns no pair                                                     *)
C2_RefreshRejectsWithUnauthorized ==
    (/\ last.op = "refresh"
     /\ last.token.form \notin {"None", ""}
     /\ \/ last.token.form # "jwt"
        \/ last.token.key # SECRET_KEY
        \/ Expired(last.token))
    => /\ last.res.exc = NotAuthorizedError
       /\ last.res.val = <<>>

(* C3: for every pair issued, decode_access_token on the refresh token and *)
(* refresh on the access token both raise NotAuthorizedError               *)
C3_NoCrossUse ==
    \A pair \in held :
        /\ decode_access_token(pair.refresh).exc = NotAuthorizedError
        /\ refresh(EmptyTx, pair.access).exc = NotAuthorizedError

(* C4: login with a registered username and its password succeeds, and     *)
(* decode_access_token on the access token it returns gives the username   *)
(* and the id of the Account created at registration                       *)
C4_LoginThenDecode ==
    (/\ last.op = "login"
     /\ \E a \in StoredAuth(last.username) : PasswordOf(a) = last.password)
    => /\ ~Raised(last.res)
       /\ LET payload == decode_access_token(last.res.val.access)
          IN /\ ~Raised(payload)
             /\ payload.val.username = last.username
             /\ \E u \in db.user :
                    u.username = last.username /\ u.id = payload.val.user_id

C4_Witness ==
    /\ last.op = "login"
    /\ ~Raised(last.res)
    /\ decode_access_token(last.res.val.access).val.username = last.username
    /\ Cardinality(db.user) = 2

(* C5: refresh with an unexpired refresh token of a pair issued for a      *)
(* Credential that is still stored returns a pair, and decode_access_token *)
(* on its access token gives the user_id of the access token issued with   *)
(* the presented refresh token                                             *)
C5_RefreshKeepsAccount ==
    (/\ last.op = "refresh"
     /\ last.pair # NoPair
     /\ last.token = last.pair.refresh
     /\ ~Expired(last.token)
     /\ \E a \in db.auth : str(a.id) = last.token.claims.id)
    => /\ ~Raised(last.res)
       /\ LET payload == decode_access_token(last.res.val.access)
          IN /\ ~Raised(payload)
             /\ payload.val.user_id = UUID(last.pair.access.claims.user_id)

C5_Witness ==
    /\ last.op = "refresh"
    /\ last.pair # NoPair
    /\ last.token = last.pair.refresh
    /\ Expired(last.pair.access)
    /\ ~Raised(last.res)
    /\ ~Raised(decode_access_token(last.res.val.access))

(* C6: refresh(None) and refresh("") raise RefreshTokenRequiredError       *)
(* before the token is decoded and before storage is read                  *)
C6_RefreshRequiresToken ==
    (last.op = "refresh" /\ last.token \in {None, EmptyString})
    => /\ last.res.exc = RefreshTokenRequiredError
       /\ last.res.trace = <<>>

C6_Witness ==
    /\ last.op = "refresh"
    /\ last.token = EmptyString
    /\ last.res.exc = RefreshTokenRequiredError
    /\ db.auth # {}

(* C11: the admin gate raises AdminRightsRequiredError when the payload's  *)
(* is_admin is false and otherwise returns the payload's user_id, and it   *)
(* reaches no collaborator and no session on the way                       *)
C11_AdminGate ==
    last.op = "logged_in_admin_id" =>
        /\ ~last.payload.is_admin =>
              last.res.exc = AdminRightsRequiredError /\ last.res.val = <<>>
        /\ last.payload.is_admin =>
              ~Raised(last.res) /\ last.res.val = last.payload.user_id
        /\ last.res.trace = <<>>
        /\ last.res.tx = EmptyTx

C11_Witness ==
    /\ last.op = "logged_in_admin_id"
    /\ ~last.payload.is_admin
    /\ last.res.exc = AdminRightsRequiredError
    /\ \E pair \in held :
          decode_access_token(pair.access).val = last.payload

(* C13: for a caller holding a pair, once the access token has expired and *)
(* the refresh token has not, decode_access_token rejects the access token *)
(* with NotAuthorizedError and refresh returns a pair whose access token   *)
(* decode_access_token accepts; once the refresh token has expired no call *)
(* made with a token of the pair returns anything, so that only login      *)
(* gives the caller a pair again                                           *)
C13_TokenLifecycle ==
    /\ \A pair \in held :
          /\ (Expired(pair.access) /\ ~Expired(pair.refresh)) =>
                /\ decode_access_token(pair.access).exc = NotAuthorizedError
                /\ LET res == refresh(EmptyTx, pair.refresh)
                   IN /\ ~Raised(res)
                      /\ ~Raised(decode_access_token(res.val.access))
          /\ Expired(pair.refresh) =>
                /\ Raised(refresh(EmptyTx, pair.refresh))
                /\ Raised(decode_access_token(pair.access))
                /\ \E a \in db.auth :
                      ~Raised(login(EmptyTx, a.username, PasswordOf(a)))
    /\ (/\ last.op \in {"refresh", "decode_access_token"}
        /\ last.pair # NoPair
        /\ Expired(last.pair.refresh))
       => Raised(last.res) /\ last.res.val = <<>>

C13_Witness ==
    /\ last.op = "refresh"
    /\ last.pair \in held
    /\ last.token = last.pair.refresh
    /\ Expired(last.token)
    /\ Raised(last.res)

----------------------------------------------------------------------------
(* Properties of refresh tokens over their lifetime (SpecLife) *)

StoredById(token) == {a \in db.auth : str(a.id) = token.claims.id}

(* C12: a refresh token a refresh has succeeded with is accepted again by  *)
(* every later refresh made before its expiry while its Credential is      *)
(* stored, and the pair returned is for that Credential                    *)
C12_RotationKeepsOldToken ==
    /\ \A t \in rotated :
          (~Expired(t) /\ StoredById(t) # {}) =>
             LET res == refresh(EmptyTx, t)
             IN ~Raised(res) /\ res.val.refresh.claims.id = t.claims.id
    /\ (/\ last.op = "refresh" /\ last.again
        /\ ~Expired(last.token) /\ StoredById(last.token) # {})
       => /\ ~Raised(last.res)
          /\ last.res.val.refresh.claims.id = last.token.claims.id
          /\ \E a \in StoredById(last.token) :
                decode_access_token(last.res.val.access).val.user_id = a.user_id

C12_Witness ==
    /\ last.op = "refresh" /\ last.again
    /\ ~Raised(last.res)
    /\ last.token \notin {pair.refresh : pair \in held}
    /\ now > 0

(* C14: refresh with a well signed, unexpired refresh token whose          *)
(* Credential id matches no stored Credential raises Auth.NotFoundError    *)
(* and returns no pair                                                     *)
C14_RefreshOfDeletedCredential ==
    (/\ last.op = "refresh"
     /\ last.token.form = "jwt" /\ last.token.key = SECRET_KEY
     /\ last.token.claims.token_type = "refresh"
     /\ ~Expired(last.token)
     /\ StoredById(last.token) = {})
    => /\ last.res.exc = NotFoundError("Auth")
       /\ last.res.val = <<>>

C14_Witness ==
    /\ last.op = "refresh"
    /\ last.token.form = "jwt"
    /\ ~Expired(last.token)
    /\ StoredById(last.token) = {}
    /\ last.res.exc = NotFoundError("Auth")
    /\ last.res.trace = <<"jwt.decode", "auth_repo.get_by_id">>

----------------------------------------------------------------------------
(* Properties of the repository boundary (SpecRepo) *)

(* C7: what leaves a repository method whose body fails: NoResultFound     *)
(* becomes the entity's NotFoundError, a uniqueness violation the entity's *)
(* AlreadyExistError, and every other failure leaves as it was raised      *)
C7_FailureClassification ==
    call.cls # "" =>
        /\ call.kind = "row-not-found" =>
              call.out.exc = NotFoundError(call.entity)
        /\ call.kind = "unique" =>
              call.out.exc = AlreadyExistError(call.entity)
        /\ call.kind \notin {"row-not-found", "unique"} =>
              call.out.exc = call.raw.exc /\ call.out.val = call.raw.val

C7_Witness ==
    /\ call.cls = "NewRepo"
    /\ call.kind = "unique"
    /\ engine = "postgresql"
    /\ call.raw.exc.cls = "sqlalchemy.exc.IntegrityError"
    /\ call.out.exc = AlreadyExistError(call.entity)

(* C8: in every class RepoMeta created, every coroutine method, inherited, *)
(* added or overridden, has exactly one handle_exceptions wrapper around   *)
(* it and carries the __handle_exceptions__ mark                           *)
C8_WrappedExactlyOnce ==
    \A c \in DOMAIN classes : \A name \in Attributes(classes, c) :
        LET attr == Lookup(classes, c, name)
        IN iscoroutinefunction(attr) => attr.wraps = 1 /\ attr.mark

C8_Witness ==
    /\ "NewRepo" \in DOMAIN classes
    /\ LET cls == classes["NewRepo"]
       IN /\ cls.base = "UserRepo"
          /\ DOMAIN cls.body = BodyNames
          /\ cls.body["get_by_id"] = handle_exceptions(Coroutine)
          /\ cls.body["find_by_name"] = Coroutine
          /\ cls.ns["get_by_id"].wraps = 1
          /\ cls.ns["find_by_name"].wraps = 1
          /\ Lookup(classes, "NewRepo", "get_by_username").wraps = 1

(* C15: every failure that leaves a repository method is an                *)
(* ApplicationError: no failure of the storage layer is seen above it      *)
C15_OnlyDomainFailures ==
    (call.cls # "" /\ Raised(call.out)) => call.out.exc.cls \in ApplicationErrors

----------------------------------------------------------------------------
(* Properties of concurrent registration (SpecReg) *)

(* the requests that have arrived for a username *)
Racers(username) ==
    {r \in DOMAIN reqs : reqs[r].pc # "idle" /\ reqs[r].username = username}

(* C9: when two requests create the same username and one arrived while   *)
(* the other was under way, then once both have ended exactly one has      *)
(* succeeded and the other has failed with User's AlreadyExistError        *)
C9_OneWinnerOneAlreadyExists ==
    \A u \in Usernames :
        (/\ Cardinality(Racers(u)) = 2
         /\ \A r \in Racers(u) : reqs[r].pc = "done"
         /\ \E r \in Racers(u) : reqs[r].raced)
        => \E w \in Racers(u) : \E l \in Racers(u) \ {w} :
              /\ ~Raised(reqs[w].res)
              /\ reqs[l].res.exc = AlreadyExistError("User")

C9_Witness ==
    \E w, l \in DOMAIN reqs :
        /\ w # l
        /\ reqs[w].username = reqs[l].username
        /\ reqs[w].pc = "done" /\ reqs[l].pc = "done"
        /\ reqs[l].raced
        /\ ~Raised(reqs[w].res)
        /\ reqs[l].res.exc = AlreadyExistError("User")
        /\ engine = "postgresql"

(* C10: the rows a register request has written are not among the          *)
(* committed rows before its commit, a request that failed has committed   *)
(* nothing, and in the committed rows every User has its Auth and every    *)
(* Auth its User                                                           *)
C10_RegistrationAtomic ==
    /\ \A r \in DOMAIN reqs :
          /\ reqs[r].tx.user \cap db.user = {}
          /\ reqs[r].tx.auth \cap db.auth = {}
          /\ reqs[r].pc # "done" =>
                /\ \A u \in db.user : u.id # reqs[r].user_id
                /\ \A a \in db.auth : a.id # reqs[r].auth_id
          /\ (reqs[r].pc = "done" /\ Raised(reqs[r].res)) =>
                /\ \A u \in db.user : u.id # reqs[r].user_id
                /\ \A a \in db.auth : a.id # reqs[r].auth_id
    /\ \A u \in db.user :
          \E a \in db.auth : a.user_id = u.id /\ a.username = u.username
    /\ \A a \in db.auth :
          \E u \in db.user : u.id = a.user_id /\ u.username = a.username

C10_Witness ==
    \E r, q \in DOMAIN reqs :
        /\ reqs[r].pc = "commit"
        /\ reqs[r].tx.user # {} /\ reqs[r].tx.auth # {}
        /\ reqs[q].pc = "done" /\ ~Raised(reqs[q].res)
        /\ Cardinality(db.user) = 1 /\ Cardinality(db.auth) = 1

----------------------------------------------------------------------------
(* Properties of the generic repository operations (SpecCrud) *)

C17_BatchAllOrNothing ==
    (/\ call.name \in {"create_many", "create_and_get_many"}
     /\ \/ \E i \in 1..Len(call.args) :
              ViolatedColumns(call.before, "user", serialize(call.args[i])) # {}
        \/ \E i, j \in 1..Len(call.args) :
              i # j /\ ViolatedColumns({serialize(call.args[i])}, "user",
                                       serialize(call.args[j])) # {})
    => /\ call.out.exc = AlreadyExistError("User")
       /\ db.user = call.before

C17_Witness ==
    /\ call.name = "create_many"
    /\ Len(call.args) = 2
    /\ call.before # {}
    /\ \A i \in 1..2 :
          ViolatedColumns(call.before, "user", serialize(call.args[i])) = {}
    /\ call.args[1].id # call.args[2].id
    /\ call.args[1].username = call.args[2].username
    /\ call.out.exc = AlreadyExistError("User")
    /\ db.user = call.before

(* the rows of a store other than those with one of the ids *)
Without(rows, ids) == {x \in rows : x.id \notin ids}

(* the ids a delete call names *)
Named == IF call.name = "delete" THEN {call.args} ELSE Range(call.args)

(* the store after the observed delete call is made once more *)
DeletedAgain ==
    IF call.name = "delete"
    THEN Committed(RepoBase_delete("UserRepo", "User", EmptyTx, call.args).tx).user
    ELSE Committed(RepoBase_delete_many("UserRepo", "User", EmptyTx, call.args).tx).user

(* C18: delete and delete_many raise nothing, also for ids that match no   *)
(* row; the rows not named stay as they were and the rows named are gone;  *)
(* making the same call again leaves the store as the first call left it   *)
C18_DeleteIdempotent ==
    call.name \in {"delete", "delete_many"} =>
        /\ ~Raised(call.out)
        /\ db.user = Without(call.before, Named)
        /\ DeletedAgain = db.user

C18_Witness ==
    /\ call.name = "delete_many"
    /\ ~Raised(call.out)
    /\ \E i \in Named : \A x \in call.before : x.id # i
    /\ \E i \in Named : \E x \in call.before : x.id = i
    /\ db.user # {}
    /\ db.user # call.before
    /\ DeletedAgain = db.user

(* C19: get_many_by_ids returns the stored records whose id is among the   *)
(* ids, all of them and no other, and raises nothing for an id that        *)
(* matches no row                                                          *)
C19_GetManyByIdsExact ==
    call.name = "get_many_by_ids" =>
        /\ ~Raised(call.out)
        /\ \A m \in call.out.val :
              serialize(m) \in call.before /\ m.id \in Range(call.args)
        /\ \A x \in call.before :
              x.id \in Range(call.args) => deserialize("User", x) \in call.out.val

C19_Witness ==
    /\ call.name = "get_many_by_ids"
    /\ \E i \in Range(call.args) : \A x \in call.before : x.id # i
    /\ \E x \in call.before : x.id \notin Range(call.args)
    /\ \E m \in call.out.val : serialize(m) \in call.before
    /\ ~Raised(call.out)

(* C20: update and update_and_get of a record whose id matches no stored   *)
(* row fail with the entity's NotFoundError and the store is as it was     *)
C20_UpdateOfAbsentRow ==
    (/\ call.name \in {"update", "update_and_get"}
     /\ \A x \in call.before : x.id # call.args.id)
    => /\ call.out.exc = NotFoundError("User")
       /\ db.user = call.before

C20_Witness ==
    /\ call.name = "update"
    /\ call.before # {}
    /\ \A x \in call.before : x.id # call.args.id /\ x.username # call.args.username
    /\ call.out.exc = NotFoundError("User")
    /\ db.user = call.before

(* C21: a record converted to its storage form and back is the record; the *)
(* batch forms return as many elements as they are given, the i-th being   *)
(* the conversion of the i-th element given                                *)
C21_SerializerRoundTrip ==
    call.name = "flat" =>
        /\ Len(call.out.val.dtos) = Len(call.args)
        /\ Len(call.out.val.back) = Len(call.args)
        /\ \A i \in 1..Len(call.args) :
              /\ call.out.val.dtos[i] = serialize(call.args[i])
              /\ call.out.val.back[i] = deserialize("User", call.out.val.dtos[i])
              /\ deserialize("User", serialize(call.args[i])) = call.args[i]
              /\ call.out.val.dtos[i] # call.args[i]

C21_Witness ==
    /\ call.name = "flat"
    /\ Len(call.args) = 2
    /\ call.args[1] # call.args[2]
    /\ call.out.val.back = call.args
    /\ call.out.val.dtos[1].id = call.args[1].id

(* C22: no repository operation changes the id of a stored row: an update  *)
(* leaves the stored ids and the number of rows as they were and does not  *)
(* touch the rows of other ids; a create keeps every stored row; a delete  *)
(* leaves only rows that were stored                                       *)
C22_IdImmutable ==
    /\ call.name \in {"update", "update_and_get", "update_many"} =>
          LET Targets == IF call.name = "update_many" THEN Ids(Range(call.args))
                         ELSE {call.args.id}
          IN /\ Ids(db.user) = Ids(call.before)
             /\ Cardinality(db.user) = Cardinality(call.before)
             /\ Without(db.user, Targets) = Without(call.before, Targets)
    /\ call.name \in {"create_many", "create_and_get_many"} =>
          call.before \subseteq db.user
    /\ call.name \in {"delete", "delete_many"} => db.user \subseteq call.before

C22_Witness ==
    /\ call.name = "update"
    /\ ~Raised(call.out)
    /\ db.user # call.before
    /\ call.before # {}
    /\ Ids(db.user) = Ids(call.before)

----------------------------------------------------------------------------
(* Properties of the request's session (SpecReg) *)

(* C24: a request that has finished, with a response or with a failure,    *)
(* has no open session; a session is open only while its request runs      *)
C24_SessionReleased ==
    \A r \in DOMAIN reqs :
        /\ reqs[r].pc = "done" => reqs[r].session = "closed"
        /\ reqs[r].session = "open" => reqs[r].pc \notin {"idle", "done"}

C24_Witness ==
    \E r, q \in DOMAIN reqs :
        /\ reqs[r].pc = "done" /\ Raised(reqs[r].res) /\ reqs[r].session = "closed"
        /\ reqs[q].pc = "done" /\ ~Raised(reqs[q].res) /\ reqs[q].session = "closed"

----------------------------------------------------------------------------
(* Properties of create_auth (SpecAuth) *)

(* C25: create_auth for a username a stored Credential holds fails with    *)
(* Auth's AlreadyExistError and the stored Credentials, their password     *)
(* hashes and admin flags included, are as they were                       *)
C25_CreateAuthTakenUsername ==
    (/\ call.name = "create_auth"
     /\ \E a \in call.before : a.username = call.args.username)
    => /\ call.out.exc = AlreadyExistError("Auth")
       /\ db.auth = call.before

C25_Witness ==
    /\ call.name = "create_auth"
    /\ \E a \in call.before :
          /\ a.username = call.args.username
          /\ ~verify_password(call.args.password, a.password_hash)
          /\ a \in db.auth
    /\ call.out.exc = AlreadyExistError("Auth")

----------------------------------------------------------------------------
(* Properties of the token operations and storage (Spec) *)

(* C26: login, refresh and decode_access_token, with the token pair and    *)
(* the decoding they contain, write nothing: the rows their session would  *)
(* commit are the stored rows, whether the call succeeds or fails          *)
C26_TokenOpsWriteNothing ==
    last.op \in {"login", "refresh", "decode_access_token"} =>
        Committed(last.res.tx) = db

C26_Witness ==
    /\ last.op = "login"
    /\ ~Raised(last.res)
    /\ last.res.tx.stmts > 0
    /\ Cardinality(db.auth) = 2
    /\ Committed(last.res.tx) = db

----------------------------------------------------------------------------
(* Properties of the admin flag (SpecAdmin) *)

(* C27: decode_access_token on an access token issued for a Credential     *)
(* returns a payload whose is_admin is the flag the token was issued with, *)
(* and the token of an admin Credential passes the admin gate              *)
C27_AdminFlagSurvives ==
    /\ (/\ last.op = "decode_access_token"
        /\ last.pair # NoPair
        /\ last.token = last.pair.access
        /\ ~Raised(last.res))
       => last.res.val.is_admin = last.token.claims.is_admin
    /\ (/\ last.op = "logged_in_admin_id"
        /\ last.pair # NoPair
        /\ last.token = last.pair.access
        /\ ~Expired(last.token)
        /\ last.token.claims.is_admin)
       => ~Raised(last.res)

(* C28: the pair a refresh returns is built from the Credential as stored  *)
(* when the refresh is made: its access token carries the stored username  *)
(* and admin flag of the Credential the refresh token names                *)
C28_RefreshReadsStoredCredential ==
    (last.op = "refresh" /\ ~Raised(last.res)) =>
        /\ StoredById(last.token) # {}
        /\ \A a \in StoredById(last.token) :
              /\ last.res.val.access.claims.username = a.username
              /\ last.res.val.access.claims.is_admin = a.is_admin

C28_Witness ==
    /\ last.op = "refresh"
    /\ ~Raised(last.res)
    /\ last.pair # NoPair
    /\ last.token = last.pair.refresh
    /\ last.pair.access.claims.is_admin = FALSE
    /\ last.res.val.access.claims.is_admin = TRUE
    /\ last.pair.access.claims.username # last.res.val.access.claims.username

----------------------------------------------------------------------------
(* Properties of the QR codes (SpecQr) *)

(* C23: delete_qr_code and update_qr_code by a user who is not the owner   *)
(* fail with QrCode's NotFoundError, as for an id that is not stored, and  *)
(* write nothing; a call by the owner deletes or changes the record        *)
(* (NamedQr: the stored QR code the call names, if there is one)          *)
C23_OwnerOnlyMutation ==
    call.name \in {"delete_qr_code", "update_qr_code"} =>
      LET NamedQr == {q \in call.before : q.id = call.args.qr_code_id}
      IN
        /\ (\A q \in NamedQr : q.user_id # call.args.user_id) =>
              /\ call.out.exc = NotFoundError("QrCode")
              /\ Committed(call.out.tx).qr_code = call.before
              /\ db.qr_code = call.before
        /\ (\E q \in NamedQr : q.user_id = call.args.user_id) =>
              /\ ~Raised(call.out)
              /\ call.name = "delete_qr_code" =>
                    db.qr_code = Without(call.before, {call.args.qr_code_id})
              /\ call.name = "update_qr_code" =>
                    db.qr_code = Without(call.before, {call.args.qr_code_id}) \cup
                        {[q EXCEPT !.name = call.args.name, !.link = call.args.link] :
                            q \in NamedQr}

C23_Witness ==
    /\ call.name = "update_qr_code"
    /\ \E q \in call.before :
          /\ q.id = call.args.qr_code_id
          /\ q.user_id # call.args.user_id
          /\ q.name # call.args.name
    /\ call.out.exc = NotFoundError("QrCode")
    /\ db.qr_code = call.before

(* C30: every stored QR code has the user_id its create_qr_code call was   *)
(* given, and get_all_user_qr_codes(u) returns the stored records of u and *)
(* no other                                                                *)
C30_OwnerNeverChanges ==
    /\ \A q \in db.qr_code :
          \E c \in created : c.id = q.id /\ c.user_id = q.user_id
    /\ call.name = "get_all_user_qr_codes" =>
          /\ ~Raised(call.out)
          /\ \A m \in call.out.val :
                m.user_id = call.args.user_id /\ serialize(m) \in db.qr_code
          /\ \A q \in db.qr_code :
                q.user_id = call.args.user_id => deserialize("QrCode", q) \in call.out.val

C30_Witness ==
    /\ call.name = "update_qr_code"
    /\ ~Raised(call.out)
    /\ Cardinality(db.qr_code) = 2
    /\ \E q \in call.before, p \in db.qr_code :
          /\ q.id = call.args.qr_code_id
          /\ p.id = q.id
          /\ p.name # q.name
          /\ p.user_id = q.user_id
          /\ \E o \in db.qr_code : o.user_id # p.user_id

====
